---- MODULE Spec2Model ----
(***************************************************************************)
(* api-store: the in-memory store of app/main.py (app/sdk.py and           *)
(* app/database.py hold the same logic split over two modules).            *)
(*                                                                         *)
(* Every endpoint is an asyncio coroutine.  Control can pass to another    *)
(* request only at an `await`; the only awaits of the handlers are the     *)
(* `await l.acquire()` calls.  A handler is therefore modelled as          *)
(*   - one step from its entry to its first `await l.acquire()`,           *)
(*   - one step per lock acquired (enabled when the lock is free); the     *)
(*     step of the last acquire goes on through the whole try/finally      *)
(*     body, which holds no await and so runs without interruption.        *)
(* Handlers without an await (seller_register, cart_add, cart_remove) are  *)
(* one step.                                                               *)
(* Every `await l.acquire()` is taken as a point where the request may be  *)
(* suspended and another request may run, whether the lock is free or not. *)
(***************************************************************************)
EXTENDS Integers, Sequences, FiniteSets, TLC

\* ---------------------------------------------------------------- bounds
MaxPrice    == 2   \* largest price_cents a seller registers
MaxStock    == 2   \* largest quantity a seller registers
MaxQty      == 2   \* largest quantity of a buy
MaxBalance  == 2   \* the amount of a top-up, and the most that is paid in to a user
MaxOrders   == 2   \* purchases are started while fewer orders than this exist
MaxResets   == 1   \* reset_all is called at most this often

Tasks   == {1, 2}                  \* requests that can be in flight together
Users   == {1, 2}                  \* user emails
Pids    == {1, 2}                  \* product ids, in the order of registration
Tokens  == {"", "k1", "k2"}        \* "" is the absent / empty Idempotency-Key header
Prices  == 1..MaxPrice
Stocks  == 1..MaxStock
Qtys    == 0..MaxQty               \* 0 is the rejected, non-positive case
Names   == {"n"}
Categories == {"general"}
None    == -1                      \* Optional[int] = None of RemoveFromCartIn.quantity

\* ------------------------------------------------------------- resource keys
\* f"product:{pid}" and f"wallet:{user_email}": "product:..." sorts before
\* "wallet:..." ('p' < 'w'); keys of one kind sort by their id.
ProductKey(pid) == <<0, pid>>
WalletKey(user) == <<1, user>>

KeyLess(a, b) == a[1] < b[1] \/ (a[1] = b[1] /\ a[2] < b[2])

\* sorted(keys): insertion sort of a sequence of keys.
RECURSIVE Insert(_, _)
Insert(k, s) ==
    IF s = <<>> THEN <<k>>
    ELSE IF KeyLess(k, Head(s)) THEN <<k>> \o s
    ELSE <<Head(s)>> \o Insert(k, Tail(s))

\* the keys in the order they were collected in
unsorted(s) == s

RECURSIVE sorted(_)
sorted(s) == IF s = <<>> THEN <<>> ELSE Insert(Head(s), sorted(Tail(s)))

\* ------------------------------------------------------------------ state
VARIABLES
    PRODUCTS,     \* pid -> [id, name, price_cents, quantity, category]
    WALLETS,      \* user -> balance; a user without an entry has 0, which is
                  \* what every read, WALLETS.get(user, 0), makes of it
    CARTS,        \* user -> cart; a cart is the dict's items in insertion order,
                  \* a sequence of [pid, qty]; a user without an entry has the
                  \* empty cart, as CARTS.get(user, {}) and setdefault make of it
    ORDERS,       \* the orders in creation order; an order's id is its position
    IDEMPOTENCY,  \* token -> cached order (NoOrder: no entry)
    resets,       \* how often `_LOCKS.clear()` has run (see get_lock)
    locked,       \* the asyncio.Lock objects that are locked
    pc,           \* task -> "idle" | "acquire" | "done"
    req,          \* task -> the request it serves
    locks,        \* task -> the local `locks`: the sorted keys it acquires
    nacq,         \* task -> how many of `locks` it has acquired
    cart,         \* task -> the local `cart` of cart_checkout (see CartRef)
    res,          \* task -> the response
    registered,   \* history: pid -> the quantity it was registered with
    topped,       \* history: user -> the sum of the successful top-ups
    committed     \* history: token -> the ids of the orders committed under it

store == <<PRODUCTS, WALLETS, CARTS, ORDERS, IDEMPOTENCY>>
hist  == <<registered, topped, committed>>
tvars == <<pc, req, locks, nacq, cart, res>>
vars  == <<PRODUCTS, WALLETS, CARTS, ORDERS, IDEMPOTENCY, resets, locked,
           pc, req, locks, nacq, cart, res, registered, topped, committed>>

NoOrder == [id |-> 0, user_email |-> 0, items |-> <<>>, total_cents |-> 0,
            status |-> "none"]
NoReq   == [op |-> "none", user |-> 0, pid |-> 0, qty |-> 0, key |-> ""]
\* A response: the HTTP status code, the error detail (with the product id
\* some details end in), the order or the balance returned.
NoRes   == [code |-> 0, detail |-> "", pid |-> 0, order |-> NoOrder, balance |-> 0]

\* The local `cart` of cart_checkout is a reference to a dict.  Either it is
\* still the dict stored in CARTS[user] (live: it sees later cart_add /
\* cart_remove), or CARTS[user] was rebound to a new dict since (line 261) and
\* the local keeps the old dict, which nothing mutates any more.
NoCart == [live |-> FALSE, items |-> <<>>]

Init ==
    /\ PRODUCTS = << >>
    /\ WALLETS = [u \in Users |-> 0]
    /\ CARTS = [u \in Users |-> << >>]
    /\ ORDERS = << >>
    /\ IDEMPOTENCY = [k \in Tokens |-> NoOrder]
    /\ resets = 0
    /\ locked = {}
    /\ pc = [t \in Tasks |-> "idle"]
    /\ req = [t \in Tasks |-> NoReq]
    /\ locks = [t \in Tasks |-> << >>]
    /\ nacq = [t \in Tasks |-> 0]
    /\ cart = [t \in Tasks |-> NoCart]
    /\ res = [t \in Tasks |-> NoRes]
    /\ registered = << >>
    /\ topped = [u \in Users |-> 0]
    /\ committed = [k \in Tokens |-> << >>]

\* ---------------------------------------------------------------- helpers
\* d[key] = value
Put(d, key, value) == [d EXCEPT ![key] = value]

\* a cart (sequence of [pid, qty]) as seen through dict operations
CartPids(c)    == {c[i].pid : i \in 1..Len(c)}
CartQty(c, p)  == LET i == CHOOSE i \in 1..Len(c) : c[i].pid = p IN c[i].qty
\* cart[p] = q: an existing key keeps its place, a new key goes last
CartSet(c, p, q) ==
    IF p \in CartPids(c)
    THEN [i \in 1..Len(c) |-> IF c[i].pid = p THEN [pid |-> p, qty |-> q] ELSE c[i]]
    ELSE Append(c, [pid |-> p, qty |-> q])
\* del cart[p]
CartDel(c, p)  == SelectSeq(c, LAMBDA e : e.pid # p)

Error(code, detail) == [NoRes EXCEPT !.code = code, !.detail = detail]
ErrorAt(code, detail, p) == [NoRes EXCEPT !.code = code, !.detail = detail, !.pid = p]
Ok(order) == [NoRes EXCEPT !.code = 200, !.order = order]

\* ------------------------------------------------------- seller_register
seller_register(name, price, quantity, category) ==
    /\ LET pid == Len(PRODUCTS) + 1 IN
        /\ PRODUCTS' = Append(PRODUCTS,
               [id |-> pid, name |-> name, price_cents |-> price,
                quantity |-> quantity, category |-> category])
        /\ registered' = Append(registered, quantity)
    /\ UNCHANGED <<WALLETS, CARTS, ORDERS, IDEMPOTENCY, locked, tvars,
                   topped, committed, resets>>

\* ------------------------------------------------------------ _get_lock
\* a registry with one lock for all keys
get_lock_global(key) == <<0, 0, resets>>

\* One lock per key, created on first use and kept in _LOCKS until
\* `_LOCKS.clear()` (line 349) drops them all.  The lock _LOCKS holds for a
\* key was therefore created after the last clear: a lock object is identified
\* by its key and the number of clears that came before its creation.
get_lock(key) == <<key[1], key[2], resets>>

\* The key a lock was created for.
KeyOf(l) == <<l[1], l[2]>>

\* `for l in locks: await l.acquire()`: the task waits at the acquire of
\* locks[t][nacq[t] + 1] while that lock is locked.
\* an acquire that does not wait for the lock to be free
CanAcquire_any(t) == pc[t] = "acquire"

CanAcquire(t) == pc[t] = "acquire" /\ locks[t][nacq[t] + 1] \notin locked

\* An acquire that is not the last one: the task goes on to the next await.
Acquire(t) ==
    /\ CanAcquire(t)
    /\ nacq[t] + 1 < Len(locks[t])
    /\ locked' = locked \cup {locks[t][nacq[t] + 1]}
    /\ nacq' = [nacq EXCEPT ![t] = @ + 1]
    /\ UNCHANGED <<store, pc, req, locks, cart, res, hist, resets>>

\* The last acquire: the task holds all its locks and enters the try block.
Enter(t, op) ==
    /\ CanAcquire(t)
    /\ nacq[t] + 1 = Len(locks[t])
    /\ req[t].op = op

\* The locks task t holds when it executes `IDEMPOTENCY[idempotency_key] =
\* order` (lines 263, 322): the statement is the last but one of the try
\* block, and the finally block that releases the locks (lines 265-270,
\* 324-329) runs after the `return order` that follows it.
HeldAtCacheWrite(t) == {locks[t][i] : i \in 1..Len(locks[t])}

\* a finally block that releases nothing
Release_kept(t) == locked \cup {locks[t][i] : i \in 1..Len(locks[t])}

\* reversed(s)
Reversed(s) == [i \in 1..Len(s) |-> s[Len(s) + 1 - i]]

\* a finally block that walks the list from its head: `for l in locks`
ReleaseOrder_forward(t) == locks[t]

\* The locks of task t in the order in which its finally block releases
\* them: `for l in reversed(locks): l.release()` (lines 265-267, 324-326).
ReleaseOrder(t) == Reversed(locks[t])

\* `for l in reversed(locks): l.release()` after the last acquire: every lock
\* of the task is unlocked again.
Release(t) == locked \ {ReleaseOrder(t)[i] : i \in 1..Len(ReleaseOrder(t))}

\* The handler of request rq returns or raises: response r; its locals are dead.
Finish(t, rq, r) ==
    /\ pc' = [pc EXCEPT ![t] = "done"]
    /\ res' = [res EXCEPT ![t] = r]
    /\ req' = [req EXCEPT ![t] = rq]
    /\ locks' = [locks EXCEPT ![t] = << >>]
    /\ nacq' = [nacq EXCEPT ![t] = 0]

\* a raise that leaves the user's cart emptied
Raise_cart_cleared(t, r) ==
    /\ Finish(t, req[t], r)
    /\ CARTS' = Put(CARTS, req[t].user, << >>)
    /\ UNCHANGED <<PRODUCTS, WALLETS, ORDERS, IDEMPOTENCY, hist, resets>>

\* a raise that leaves a failure cached under the request's token
Raise_token_cached(t, r) ==
    /\ Finish(t, req[t], r)
    /\ IDEMPOTENCY' = Put(IDEMPOTENCY, req[t].key, [NoOrder EXCEPT !.status = "failed"])
    /\ UNCHANGED <<PRODUCTS, WALLETS, CARTS, ORDERS, hist, resets>>

\* `raise HTTPException(...)` inside the try block: every raise of the block
\* (lines 228-245, 296, 301) comes before its first write (lines 248, 304), so
\* the stores are as they were.
Raise(t, r) ==
    /\ Finish(t, req[t], r)
    /\ UNCHANGED <<store, hist, resets>>

\* The handler of request rq runs up to its first `await l.acquire()` with
\* lock list ks.
Await(t, rq, ks) ==
    /\ pc' = [pc EXCEPT ![t] = "acquire"]
    /\ req' = [req EXCEPT ![t] = rq]
    /\ locks' = [locks EXCEPT ![t] = ks]
    /\ nacq' = [nacq EXCEPT ![t] = 0]
    /\ res' = res

\* The response is delivered; the task slot serves the next request.
Return(t) ==
    /\ pc[t] = "done"
    /\ pc' = [pc EXCEPT ![t] = "idle"]
    /\ req' = [req EXCEPT ![t] = NoReq]
    /\ res' = [res EXCEPT ![t] = NoRes]
    /\ UNCHANGED <<store, locked, locks, nacq, cart, hist, resets>>

\* ---------------------------------------------------------- wallet_topup
\* lines 120-125: validation, then the lock of the wallet.
wallet_topup_start(t, user, amount) ==
    /\ pc[t] = "idle"
    /\ LET rq == [NoReq EXCEPT !.op = "topup", !.user = user, !.qty = amount]
       IN  IF amount <= 0
           THEN Finish(t, rq, Error(400, "Amount must be positive"))
           ELSE Await(t, rq, <<get_lock(WalletKey(user))>>)
    /\ UNCHANGED <<store, locked, cart, hist, resets>>

\* a top-up whose amount is lost
TopupBalance_lost(balance, amount) == balance

\* a top-up that stores the amount in place of the sum
TopupBalance_set(balance, amount) == amount

\* lines 127-128: `balance = WALLETS.get(user, 0); balance += amount_cents`
TopupBalance(balance, amount) == balance + amount

\* lines 127-133
wallet_topup_critical(t) ==
    /\ Enter(t, "topup")
    /\ LET user    == req[t].user
           balance == TopupBalance(WALLETS[user], req[t].qty)
       IN  /\ WALLETS' = Put(WALLETS, user, balance)
           /\ topped' = [topped EXCEPT ![user] = @ + req[t].qty]
           /\ Finish(t, req[t], [NoRes EXCEPT !.code = 200, !.balance = balance])
    /\ locked' = Release(t)
    /\ UNCHANGED <<PRODUCTS, CARTS, ORDERS, IDEMPOTENCY, cart, registered, committed, resets>>

\* ------------------------------------------------------------- cart_add
\* an add that does not look the product up
cart_add_unchecked(user, pid, quantity) ==
    /\ quantity > 0
    /\ LET c == CARTS[user]
           q == (IF pid \in CartPids(c) THEN CartQty(c, pid) ELSE 0) + quantity
       IN  CARTS' = Put(CARTS, user, CartSet(c, pid, q))
    /\ UNCHANGED <<PRODUCTS, WALLETS, ORDERS, IDEMPOTENCY, locked, tvars, hist, resets>>

\* lines 143-150.  The handler has no await: one step.
cart_add(user, pid, quantity) ==
    /\ quantity > 0
    /\ pid \in DOMAIN PRODUCTS
    /\ LET c == CARTS[user]               \* CARTS.setdefault(user, {})
           q == (IF pid \in CartPids(c) THEN CartQty(c, pid) ELSE 0) + quantity
       IN  CARTS' = Put(CARTS, user, CartSet(c, pid, q))
    /\ UNCHANGED <<PRODUCTS, WALLETS, ORDERS, IDEMPOTENCY, locked, tvars, hist, resets>>

\* ---------------------------------------------------------- cart_remove
\* a removal that takes the quantity as it comes and keeps the entry
cart_remove_result_kept(c, pid, quantity) ==
    IF pid \notin CartPids(c) THEN c
    ELSE IF quantity = None THEN CartDel(c, pid)
    ELSE CartSet(c, pid, CartQty(c, pid) - quantity)

\* a removal that refuses a quantity above the one in the cart
cart_remove_result_strict(c, pid, quantity) ==
    IF pid \notin CartPids(c) THEN c
    ELSE IF quantity # None /\ quantity <= 0 THEN c
    ELSE IF quantity # None /\ quantity > CartQty(c, pid) THEN c
    ELSE IF quantity = None \/ quantity = CartQty(c, pid) THEN CartDel(c, pid)
    ELSE CartSet(c, pid, CartQty(c, pid) - quantity)

\* lines 171-199: the status of the response; the only raise that can be
\* reached with an integer quantity is the one of line 187.
cart_remove_status(c, pid, quantity) ==
    IF pid \notin CartPids(c) THEN 200
    ELSE IF quantity # None /\ quantity <= 0 THEN 400
    ELSE 200

\* lines 171-199: the cart after the call.
cart_remove_result(c, pid, quantity) ==
    IF pid \notin CartPids(c) THEN c
    ELSE IF quantity # None /\ quantity <= 0 THEN c               \* 400
    ELSE IF quantity = None \/ quantity >= CartQty(c, pid) THEN CartDel(c, pid)
    ELSE CartSet(c, pid, CartQty(c, pid) - quantity)

cart_remove(user, pid, quantity) ==
    /\ CARTS' = Put(CARTS, user, cart_remove_result(CARTS[user], pid, quantity))
    /\ UNCHANGED <<PRODUCTS, WALLETS, ORDERS, IDEMPOTENCY, locked, tvars, hist, resets>>

\* ---------------------------------------------------------- idempotency
\* a test that lets every token through
MissingToken_accepted(key) == FALSE

\* lines 207 and 276, `if not idempotency_key`: the header is absent or empty
MissingToken(key) == key = ""

\* a lookup that never finds an entry
Cached_miss(key) == NoOrder

\* lines 208 and 278, `prev = IDEMPOTENCY.get(idempotency_key)` (NoOrder: None)
Cached(key) == IDEMPOTENCY[key]

\* ------------------------------------------------------------------ buy
\* lines 275-292: idempotency lookup, validation, product lookup, lock list.
\* a product lookup that comes before the quantity test
BuyReject_lookup_first(quantity, pid) ==
    IF pid \notin DOMAIN PRODUCTS THEN 404
    ELSE IF quantity <= 0 THEN 400
    ELSE 0

\* lines 282-287: the quantity test, then the product lookup; 0 if both pass.
BuyReject(quantity, pid) ==
    IF quantity <= 0 THEN 400
    ELSE IF pid \notin DOMAIN PRODUCTS THEN 404
    ELSE 0

buy_start(t, user, pid, quantity, key) ==
    /\ pc[t] = "idle"
    /\ LET rq == [op |-> "buy", user |-> user, pid |-> pid, qty |-> quantity,
                  key |-> key]
       IN  IF MissingToken(key)
           THEN Finish(t, rq, Error(400, "Idempotency-Key header required"))
           ELSE IF Cached(key) # NoOrder
           THEN Finish(t, rq, Ok(Cached(key)))
           ELSE IF BuyReject(quantity, pid) = 400
           THEN Finish(t, rq, Error(400, "quantity must be > 0"))
           ELSE IF BuyReject(quantity, pid) = 404
           THEN Finish(t, rq, Error(404, "product not found"))
           ELSE Await(t, rq, [i \in 1..2 |->
                      get_lock(sorted(<<ProductKey(pid), WalletKey(user)>>)[i])])
    /\ UNCHANGED <<store, locked, cart, hist, resets>>

\* line 295 with the comparison against zero instead of the quantity asked for
BuyStockShort_zero(prod, quantity) == prod.quantity < 0

\* line 295 refusing the purchase of all that is left
BuyStockShort_last(prod, quantity) == prod.quantity <= quantity

\* line 295 against a quantity read earlier, the one the product came with
BuyStockShort_registered(prod, quantity) == registered[prod.id] < quantity

\* line 295
BuyStockShort(prod, quantity) == prod.quantity < quantity

\* line 298 without the quantity
BuyTotal_unit(prod, quantity) == prod.price_cents

\* line 298
BuyTotal(prod, quantity) == prod.price_cents * quantity

\* line 300 with the comparison against zero instead of the total
BuyFundsShort_zero(balance, total) == balance < 0

\* line 300 refusing the purchase that takes the whole balance
BuyFundsShort_all(balance, total) == balance <= total

\* line 300
BuyFundsShort(balance, total) == balance < total

\* lines 295-301 with the funds test before the stock test
BuyError_funds_first(prod, balance, quantity) ==
    IF BuyFundsShort(balance, BuyTotal(prod, quantity)) THEN 402
    ELSE IF BuyStockShort(prod, quantity) THEN 409
    ELSE 0

\* lines 295-301: what the try block raises (0: nothing).
BuyError(prod, balance, quantity) ==
    IF BuyStockShort(prod, quantity) THEN 409
    ELSE IF BuyFundsShort(balance, BuyTotal(prod, quantity)) THEN 402
    ELSE 0

\* lines 294-329: the try block and its finally.
buy_critical(t) ==
    /\ Enter(t, "buy")
    /\ LET user    == req[t].user
           pid     == req[t].pid
           prod    == PRODUCTS[pid]
           total   == BuyTotal(prod, req[t].qty)
           balance == WALLETS[user]
           order   == [id |-> Len(ORDERS) + 1, user_email |-> user,
                       items |-> << [product_id |-> pid, name |-> prod.name,
                                     quantity |-> req[t].qty,
                                     line_total_cents |-> total] >>,
                       total_cents |-> total, status |-> "placed"]
       IN  IF BuyError(prod, balance, req[t].qty) = 409
           THEN Raise(t, Error(409, "insufficient_stock"))
           ELSE IF BuyError(prod, balance, req[t].qty) = 402
           THEN Raise(t, Error(402, "insufficient_funds"))
           ELSE /\ PRODUCTS' = [PRODUCTS EXCEPT ![pid].quantity = @ - req[t].qty]
                /\ WALLETS' = Put(WALLETS, user, balance - total)
                /\ ORDERS' = Append(ORDERS, order)
                /\ IDEMPOTENCY' = [IDEMPOTENCY EXCEPT ![req[t].key] = order]
                /\ committed' = [committed EXCEPT ![req[t].key] = Append(@, order.id)]
                /\ Finish(t, req[t], Ok(order))
                /\ UNCHANGED <<CARTS, registered, topped, resets>>
    /\ locked' = Release(t)
    /\ cart' = cart

\* -------------------------------------------------------- cart_checkout
\* The dict the local `cart` of task t refers to.
CartRef(t) == IF cart[t].live THEN CARTS[req[t].user] ELSE cart[t].items

\* lines 206-221: idempotency lookup, cart lookup, lock list.
cart_checkout_start(t, user, key) ==
    /\ pc[t] = "idle"
    /\ LET rq == [NoReq EXCEPT !.op = "checkout", !.user = user, !.key = key]
           c  == CARTS[user]
           ks == sorted([i \in 1..Len(c) |-> ProductKey(c[i].pid)]
                        \o <<WalletKey(user)>>)
       IN  IF MissingToken(key)
           THEN Finish(t, rq, Error(400, "Idempotency-Key header required")) /\ cart' = cart
           ELSE IF Cached(key) # NoOrder
           THEN Finish(t, rq, Ok(Cached(key))) /\ cart' = cart
           ELSE IF c = << >>
           THEN Finish(t, rq, Error(400, "cart empty")) /\ cart' = cart
           ELSE /\ Await(t, rq, [i \in 1..Len(ks) |-> get_lock(ks[i])])
                /\ cart' = [cart EXCEPT ![t] = [live |-> TRUE, items |-> << >>]]
    /\ UNCHANGED <<store, locked, hist, resets>>

\* lines 226-233: what is wrong with one cart line (0: nothing).
LineError(line) ==
    IF line.pid \notin DOMAIN PRODUCTS THEN 404
    ELSE IF line.qty <= 0 THEN 400
    ELSE IF PRODUCTS[line.pid].quantity < line.qty THEN 409
    ELSE 0

\* a line total that leaves the price out
LineTotal_unit(line) == line.qty

\* line 234
LineTotal(line) == PRODUCTS[line.pid].price_cents * line.qty

\* lines 236-241
Items(c) == [i \in 1..Len(c) |->
                [product_id |-> c[i].pid, name |-> PRODUCTS[c[i].pid].name,
                 quantity |-> c[i].qty, line_total_cents |-> LineTotal(c[i])]]

\* line 235, over the whole cart
RECURSIVE CartTotal(_)
CartTotal(c) == IF c = << >> THEN 0 ELSE LineTotal(Head(c)) + CartTotal(Tail(c))

\* a commit loop that stops after the first line
Decrement_first(products, c) ==
    [p \in DOMAIN products |->
        IF c # << >> /\ p = c[1].pid
        THEN [products[p] EXCEPT !.quantity = @ - c[1].qty]
        ELSE products[p]]

\* a commit loop that adds the cart quantity to the stock
Decrement_restock(products, c) ==
    [p \in DOMAIN products |->
        IF p \in CartPids(c)
        THEN [products[p] EXCEPT !.quantity = @ + CartQty(c, p)]
        ELSE products[p]]

\* lines 248-249: `for pid, qty in cart.items(): PRODUCTS[pid]["quantity"] -= qty`
Decrement(products, c) ==
    [p \in DOMAIN products |->
        IF p \in CartPids(c)
        THEN [products[p] EXCEPT !.quantity = @ - CartQty(c, p)]
        ELSE products[p]]

\* line 261, `CARTS[user_email] = {}`: the user's entry is bound to a new
\* dict; the other tasks whose `cart` is the old dict keep the old dict.
Rebind(t, user) ==
    [x \in Tasks |->
        IF x = t THEN NoCart
        ELSE IF cart[x].live /\ req[x].user = user
        THEN [live |-> FALSE, items |-> CARTS[user]]
        ELSE cart[x]]

\* a loop that goes on after a bad line and raises for the last one
FirstBad_last(bad) == CHOOSE i \in bad : \A j \in bad : i >= j

\* lines 226-233: the loop over cart.items() raises at the first line, in
\* the cart's order, that fails a test.
FirstBad(bad) == CHOOSE i \in bad : \A j \in bad : i <= j

\* lines 223-270: the try block and its finally.
cart_checkout_critical(t) ==
    /\ Enter(t, "checkout")
    /\ LET user    == req[t].user
           c       == CartRef(t)
           bad     == {i \in 1..Len(c) : LineError(c[i]) # 0}
           first   == FirstBad(bad)
           balance == WALLETS[user]
       IN  IF bad # {}
           THEN /\ Raise(t, ErrorAt(LineError(c[first]),
                              CASE LineError(c[first]) = 404 -> "product_not_found"
                                [] LineError(c[first]) = 400 -> "invalid quantity in cart"
                                [] OTHER -> "insufficient_stock",
                              IF LineError(c[first]) = 400 THEN 0 ELSE c[first].pid))
                /\ cart' = [cart EXCEPT ![t] = NoCart]
           ELSE IF balance < CartTotal(c)
           THEN /\ Raise(t, Error(402, "insufficient_funds"))
                /\ cart' = [cart EXCEPT ![t] = NoCart]
           ELSE LET order == [id |-> Len(ORDERS) + 1, user_email |-> user,
                              items |-> Items(c), total_cents |-> CartTotal(c),
                              status |-> "placed"]
                IN  /\ PRODUCTS' = Decrement(PRODUCTS, c)
                    /\ WALLETS' = Put(WALLETS, user, balance - CartTotal(c))
                    /\ ORDERS' = Append(ORDERS, order)
                    /\ CARTS' = Put(CARTS, user, << >>)
                    /\ cart' = Rebind(t, user)
                    /\ IDEMPOTENCY' = [IDEMPOTENCY EXCEPT ![req[t].key] = order]
                    /\ committed' = [committed EXCEPT ![req[t].key] = Append(@, order.id)]
                    /\ Finish(t, req[t], Ok(order))
                    /\ UNCHANGED <<registered, topped, resets>>
    /\ locked' = Release(t)

\* ------------------------------------------------------------ reset_all
\* a reset that leaves the idempotency cache as it is
reset_all_cache_kept ==
    /\ PRODUCTS' = << >>
    /\ WALLETS' = [u \in Users |-> 0]
    /\ CARTS' = [u \in Users |-> << >>]
    /\ ORDERS' = << >>
    /\ resets' = resets + 1
    /\ cart' = [x \in Tasks |->
                  IF cart[x].live
                  THEN [live |-> FALSE, items |-> CARTS[req[x].user]]
                  ELSE cart[x]]
    /\ registered' = << >>
    /\ topped' = [u \in Users |-> 0]
    /\ UNCHANGED <<IDEMPOTENCY, committed, locked, pc, req, locks, nacq, res>>

\* lines 343-350.  The handler has no await: one step.  The clear() calls
\* empty the module's dicts; a cart dict that a checkout in flight refers to
\* stays with that checkout, and the lock objects held or awaited by requests
\* in flight stay as they are.  (A buy in flight would likewise keep its local
\* `prod`; the specifications that reset send no buy.)
reset_all ==
    /\ PRODUCTS' = << >>
    /\ WALLETS' = [u \in Users |-> 0]
    /\ CARTS' = [u \in Users |-> << >>]
    /\ ORDERS' = << >>
    /\ IDEMPOTENCY' = [k \in Tokens |-> NoOrder]
    /\ resets' = resets + 1
    /\ cart' = [x \in Tasks |->
                  IF cart[x].live
                  THEN [live |-> FALSE, items |-> CARTS[req[x].user]]
                  ELSE cart[x]]
    /\ registered' = << >>
    /\ topped' = [u \in Users |-> 0]
    /\ committed' = [k \in Tokens |-> << >>]
    /\ UNCHANGED <<locked, pc, req, locks, nacq, res>>

\* ------------------------------------------------------------ the system
\* What keeps the model finite.  A request is served by the first free task
\* slot (the slots are interchangeable).
Free(t) == pc[t] = "idle" /\ \A x \in Tasks : x < t => pc[x] # "idle"

\* A seller registers the products Pids, one after the other.
MayRegister == Len(PRODUCTS) < Cardinality(Pids)

\* A user is topped up while the sum paid in, with the top-ups in flight,
\* stays within cap.
RECURSIVE SumOver(_, _)
SumOver(S, f) ==
    IF S = {} THEN 0
    ELSE LET x == CHOOSE x \in S : TRUE IN f[x] + SumOver(S \ {x}, f)

PendingTopup(user) ==
    SumOver({t \in Tasks : pc[t] = "acquire" /\ req[t].op = "topup" /\ req[t].user = user},
            [t \in Tasks |-> req[t].qty])

MayTopup(user, amount, cap) == topped[user] + PendingTopup(user) + amount <= cap

\* A cart line grows up to cap.
MayAdd(user, pid, quantity, cap) ==
    (IF pid \in CartPids(CARTS[user]) THEN CartQty(CARTS[user], pid) ELSE 0) + quantity
        <= cap

\* A purchase that gets as far as its locks is started while the orders made
\* and the purchases in flight are fewer than MaxOrders.
Purchasing == {t \in Tasks : pc[t] = "acquire" /\ req[t].op \in {"buy", "checkout"}}
MayPurchase == Len(ORDERS) + Cardinality(Purchasing) < MaxOrders
BuyWaits(pid, quantity, key) ==
    key # "" /\ Cached(key) = NoOrder /\ quantity > 0 /\ pid \in DOMAIN PRODUCTS
CheckoutWaits(user, key) ==
    key # "" /\ Cached(key) = NoOrder /\ CARTS[user] # << >>

\* No response is waiting to be delivered.
Quiet == \A t \in Tasks : pc[t] # "done"

\* Concurrent requests with well-formed arguments.  A response is delivered
\* before any handler takes its next step: delivery touches only the task
\* slot, which no handler reads.
Next ==
    \/ \E t \in Tasks : Return(t)
    \/ Quiet /\ MayRegister /\ \E n \in Names, p \in {1}, q \in {1}, c \in Categories :
          seller_register(n, p, q, c)
    \/ Quiet /\ \E t \in Tasks, u \in Users, a \in {1} :
          Free(t) /\ MayTopup(u, a, 1) /\ wallet_topup_start(t, u, a)
    \/ Quiet /\ \E t \in Tasks : wallet_topup_critical(t)
    \/ Quiet /\ \E u \in Users, p \in Pids, q \in {1} :
          MayAdd(u, p, q, 1) /\ cart_add(u, p, q)
    \/ Quiet /\ \E t \in Tasks, u \in Users, p \in Pids, q \in {1}, k \in Tokens \ {""} :
          /\ Free(t)
          /\ BuyWaits(p, q, k) => MayPurchase
          /\ buy_start(t, u, p, q, k)
    \/ Quiet /\ \E t \in Tasks : buy_critical(t)
    \/ Quiet /\ \E t \in Tasks, u \in Users, k \in Tokens \ {""} :
          /\ Free(t)
          /\ CheckoutWaits(u, k) => MayPurchase
          /\ cart_checkout_start(t, u, k)
    \/ Quiet /\ \E t \in Tasks : cart_checkout_critical(t)
    \/ Quiet /\ \E t \in Tasks : Acquire(t)

Spec == Init /\ [][Next]_vars

\* Registration, top-up and buy with every kind of argument: prices and stocks
\* of 1 and more, quantities from the rejected 0 upwards, the absent token,
\* product ids not registered yet.
NextBuy ==
    \/ \E t \in Tasks : Return(t)
    \/ Quiet /\ MayRegister /\ \E n \in Names, p \in Prices, q \in Stocks, c \in Categories :
          seller_register(n, p, q, c)
    \/ Quiet /\ \E t \in Tasks, u \in Users, a \in {MaxBalance} :
          Free(t) /\ MayTopup(u, a, MaxBalance) /\ wallet_topup_start(t, u, a)
    \/ Quiet /\ \E t \in Tasks : wallet_topup_critical(t)
    \/ Quiet /\ \E t \in Tasks, u \in Users, p \in Pids, q \in Qtys, k \in Tokens :
          /\ Free(t)
          /\ BuyWaits(p, q, k) => MayPurchase
          /\ buy_start(t, u, p, q, k)
    \/ Quiet /\ \E t \in Tasks : buy_critical(t)
    \/ Quiet /\ \E t \in Tasks : Acquire(t)

SpecBuy == Init /\ [][NextBuy]_vars

\* One request at a time, every operation; registration, top-up and buy with
\* every kind of argument, carts with lines of one unit.
Idle == \A t \in Tasks : pc[t] = "idle"

NextSeq ==
    \/ \E t \in Tasks : Return(t)
    \/ Idle /\ MayRegister /\ \E n \in Names, p \in Prices, q \in Stocks, c \in Categories :
          seller_register(n, p, q, c)
    \/ Idle /\ \E t \in Tasks, u \in Users, a \in {0, MaxBalance} :
          Free(t) /\ MayTopup(u, a, MaxBalance) /\ wallet_topup_start(t, u, a)
    \/ \E t \in Tasks : wallet_topup_critical(t)
    \/ Idle /\ \E u \in Users, p \in Pids, q \in {1} :
          MayAdd(u, p, q, 1) /\ cart_add(u, p, q)
    \/ Idle /\ \E u \in Users, p \in Pids, q \in {None} :
          p \in CartPids(CARTS[u]) /\ cart_remove(u, p, q)
    \/ Idle /\ \E t \in Tasks, u \in Users, p \in Pids, q \in Qtys, k \in Tokens :
          /\ Free(t)
          /\ BuyWaits(p, q, k) => MayPurchase
          /\ buy_start(t, u, p, q, k)
    \/ \E t \in Tasks : buy_critical(t)
    \/ Idle /\ \E t \in Tasks, u \in Users, k \in Tokens :
          /\ Free(t)
          /\ CheckoutWaits(u, k) => MayPurchase
          /\ cart_checkout_start(t, u, k)
    \/ \E t \in Tasks : cart_checkout_critical(t)
    \/ \E t \in Tasks : Acquire(t)

SpecSeq == Init /\ [][NextSeq]_vars

\* Checkouts with funded wallets while the carts are edited: top-ups up to
\* MaxBalance, cart_add and cart_remove at any moment, no buy.
NextCart ==
    \/ \E t \in Tasks : Return(t)
    \/ Quiet /\ MayRegister /\ \E n \in Names, p \in {1}, q \in {1}, c \in Categories :
          seller_register(n, p, q, c)
    \/ Quiet /\ \E t \in Tasks, u \in Users, a \in {1} :
          Free(t) /\ MayTopup(u, a, MaxBalance) /\ wallet_topup_start(t, u, a)
    \/ Quiet /\ \E t \in Tasks : wallet_topup_critical(t)
    \/ Quiet /\ \E u \in Users, p \in Pids, q \in {1} :
          MayAdd(u, p, q, 1) /\ cart_add(u, p, q)
    \/ Quiet /\ \E u \in Users, p \in Pids, q \in {None} :
          p \in CartPids(CARTS[u]) /\ cart_remove(u, p, q)
    \/ Quiet /\ \E t \in Tasks, u \in Users, k \in {"k1"} :
          /\ Free(t)
          /\ CheckoutWaits(u, k) => MayPurchase
          /\ cart_checkout_start(t, u, k)
    \/ Quiet /\ \E t \in Tasks : cart_checkout_critical(t)
    \/ Quiet /\ \E t \in Tasks : Acquire(t)

SpecCart == Init /\ [][NextCart]_vars

\* Cart editing with every kind of quantity, and checkouts: one request at a
\* time, carts of up to MaxQty units a line, removals of nothing, of a part,
\* of all and of more than there is.
NextCartEdit ==
    \/ \E t \in Tasks : Return(t)
    \/ Idle /\ MayRegister /\ \E n \in Names, p \in {1}, q \in {MaxStock}, c \in Categories :
          seller_register(n, p, q, c)
    \/ Idle /\ \E t \in Tasks, u \in Users, a \in {MaxBalance} :
          Free(t) /\ MayTopup(u, a, MaxBalance) /\ wallet_topup_start(t, u, a)
    \/ \E t \in Tasks : wallet_topup_critical(t)
    \/ Idle /\ \E u \in Users, p \in Pids, q \in Qtys :
          MayAdd(u, p, q, MaxQty) /\ cart_add(u, p, q)
    \/ Idle /\ \E u \in Users, p \in Pids, q \in {None} \cup 0..(MaxQty + 1) :
          cart_remove(u, p, q)
    \/ Idle /\ \E t \in Tasks, u \in Users, k \in {"k1"} :
          /\ Free(t)
          /\ CheckoutWaits(u, k) => MayPurchase
          /\ cart_checkout_start(t, u, k)
    \/ \E t \in Tasks : cart_checkout_critical(t)
    \/ \E t \in Tasks : Acquire(t)

SpecCartEdit == Init /\ [][NextCartEdit]_vars

\* No handler is between its first await and its return.
NoneInFlight == \A t \in Tasks : pc[t] # "acquire"

\* Resets between requests: one handler runs at a time and reset_all is called
\* while none runs; a response may still be on its way to the client.
NextAfterReset ==
    \/ \E t \in Tasks : Return(t)
    \/ NoneInFlight /\ MayRegister
          /\ \E n \in Names, p \in {1}, q \in {MaxStock}, c \in Categories :
                seller_register(n, p, q, c)
    \/ NoneInFlight /\ \E t \in Tasks, u \in Users, a \in {MaxBalance} :
          Free(t) /\ MayTopup(u, a, MaxBalance) /\ wallet_topup_start(t, u, a)
    \/ \E t \in Tasks : wallet_topup_critical(t)
    \/ NoneInFlight /\ \E u \in Users, p \in Pids, q \in {1} :
          MayAdd(u, p, q, 1) /\ cart_add(u, p, q)
    \/ NoneInFlight /\ \E t \in Tasks, u \in Users, p \in Pids, q \in 1..MaxQty,
                          k \in {"k1"} :
          /\ Free(t)
          /\ BuyWaits(p, q, k) => MayPurchase
          /\ buy_start(t, u, p, q, k)
    \/ \E t \in Tasks : buy_critical(t)
    \/ \E t \in Tasks : Acquire(t)
    \/ NoneInFlight /\ resets < MaxResets /\ reset_all

SpecAfterReset == Init /\ [][NextAfterReset]_vars

\* Top-up, cart and checkout requests with reset_all among them.  Products
\* are registered before the first reset (the model numbers the products by
\* position; the code gives every product a fresh uuid).
NextReset ==
    \/ \E t \in Tasks : Return(t)
    \/ Quiet /\ MayRegister /\ resets = 0
             /\ \E n \in Names, p \in {1}, q \in {1}, c \in Categories :
                   seller_register(n, p, q, c)
    \/ Quiet /\ \E t \in Tasks, u \in Users, a \in {1} :
          Free(t) /\ MayTopup(u, a, 1) /\ wallet_topup_start(t, u, a)
    \/ Quiet /\ \E t \in Tasks : wallet_topup_critical(t)
    \/ Quiet /\ \E u \in Users, p \in Pids, q \in {1} :
          MayAdd(u, p, q, 1) /\ cart_add(u, p, q)
    \/ Quiet /\ \E t \in Tasks, u \in Users, k \in {"k1"} :
          /\ Free(t)
          /\ CheckoutWaits(u, k) => MayPurchase
          /\ cart_checkout_start(t, u, k)
    \/ Quiet /\ \E t \in Tasks : cart_checkout_critical(t)
    \/ Quiet /\ \E t \in Tasks : Acquire(t)
    \/ Quiet /\ resets < MaxResets /\ reset_all

SpecReset == Init /\ [][NextReset]_vars

\* The race for the last item: one product with quantity 1 is registered, the
\* two users have been topped up (or not), and each of them sends one buy of
\* quantity 1, user u under token Token(u), served by task u.  The responses
\* stay on record.
Token(u) == IF u = 1 THEN "k1" ELSE "k2"

InitLastItem ==
    /\ \E p \in Prices :
          PRODUCTS = << [id |-> 1, name |-> "n", price_cents |-> p, quantity |-> 1,
                         category |-> "general"] >>
    /\ WALLETS \in [Users -> 0..MaxBalance]
    /\ CARTS = [u \in Users |-> << >>]
    /\ ORDERS = << >>
    /\ IDEMPOTENCY = [k \in Tokens |-> NoOrder]
    /\ resets = 0
    /\ locked = {}
    /\ pc = [t \in Tasks |-> "idle"]
    /\ req = [t \in Tasks |-> NoReq]
    /\ locks = [t \in Tasks |-> << >>]
    /\ nacq = [t \in Tasks |-> 0]
    /\ cart = [t \in Tasks |-> NoCart]
    /\ res = [t \in Tasks |-> NoRes]
    /\ registered = << 1 >>
    /\ topped = WALLETS
    /\ committed = [k \in Tokens |-> << >>]

NextLastItem ==
    \/ \E u \in Users : buy_start(u, u, 1, 1, Token(u))
    \/ \E t \in Tasks : Acquire(t)
    \/ \E t \in Tasks : buy_critical(t)

SpecLastItem == InitLastItem /\ [][NextLastItem]_vars

\* Requests under a fair scheduler.  The shop is stocked already: two products
\* of price 1, wallets with some balance, carts empty or holding both products
\* in one of the two orders.
Line(p) == [pid |-> p, qty |-> 1]
InitFair ==
    /\ PRODUCTS = [p \in Pids |-> [id |-> p, name |-> "n", price_cents |-> 1,
                                  quantity |-> 1, category |-> "general"]]
    /\ WALLETS \in [Users -> {0, MaxBalance}]
    /\ CARTS \in [Users -> {<< >>, <<Line(1), Line(2)>>, <<Line(2), Line(1)>>}]
    /\ ORDERS = << >>
    /\ IDEMPOTENCY = [k \in Tokens |-> NoOrder]
    /\ resets = 0
    /\ locked = {}
    /\ pc = [t \in Tasks |-> "idle"]
    /\ req = [t \in Tasks |-> NoReq]
    /\ locks = [t \in Tasks |-> << >>]
    /\ nacq = [t \in Tasks |-> 0]
    /\ cart = [t \in Tasks |-> NoCart]
    /\ res = [t \in Tasks |-> NoRes]
    /\ registered = [p \in Pids |-> 1]
    /\ topped = WALLETS
    /\ committed = [k \in Tokens |-> << >>]

\* What task t does once the event loop resumes it at its await.
Resume(t) ==
    Quiet /\ (Acquire(t) \/ wallet_topup_critical(t) \/ buy_critical(t)
                \/ cart_checkout_critical(t))

NextFair ==
    \/ \E t \in Tasks : Return(t)
    \/ Quiet /\ \E t \in Tasks, u \in Users, a \in {1} :
          Free(t) /\ MayTopup(u, a, MaxBalance + 1) /\ wallet_topup_start(t, u, a)
    \/ Quiet /\ \E t \in Tasks, u \in Users, p \in Pids, q \in {1} :
          /\ Free(t)
          /\ BuyWaits(p, q, Token(u)) => MayPurchase
          /\ buy_start(t, u, p, q, Token(u))
    \/ Quiet /\ \E t \in Tasks, u \in Users :
          /\ Free(t)
          /\ CheckoutWaits(u, Token(u)) => MayPurchase
          /\ cart_checkout_start(t, u, Token(u))
    \/ \E t \in Tasks : Resume(t)

\* The event loop delivers every response, and it resumes every request that
\* waits at `await l.acquire()` once the lock can be had: asyncio.Lock keeps
\* its waiters in a queue and wakes them first come, first served, so a
\* waiter is not passed over for ever by requests that came later.
Fairness ==
    \A t \in Tasks : WF_vars(Return(t)) /\ SF_vars(Resume(t))

SpecFair == InitFair /\ [][NextFair]_vars /\ Fairness

\* Checkouts of carts that nobody edits: the shop is stocked, the wallets and
\* the carts are filled, and every task sends checkouts under a token of its
\* own, for either user.
TaskToken(t) == IF t = 1 THEN "k1" ELSE "k2"
InitSameCart ==
    /\ \E q \in Stocks :
          PRODUCTS = [p \in Pids |-> [id |-> p, name |-> "n", price_cents |-> 1,
                                     quantity |-> q, category |-> "general"]]
    /\ WALLETS \in [Users -> 0..MaxBalance]
    /\ CARTS \in [Users -> {<< >>, <<Line(1)>>, <<Line(2), Line(1)>>}]
    /\ ORDERS = << >>
    /\ IDEMPOTENCY = [k \in Tokens |-> NoOrder]
    /\ resets = 0
    /\ locked = {}
    /\ pc = [t \in Tasks |-> "idle"]
    /\ req = [t \in Tasks |-> NoReq]
    /\ locks = [t \in Tasks |-> << >>]
    /\ nacq = [t \in Tasks |-> 0]
    /\ cart = [t \in Tasks |-> NoCart]
    /\ res = [t \in Tasks |-> NoRes]
    /\ registered = [p \in Pids |-> PRODUCTS[p].quantity]
    /\ topped = WALLETS
    /\ committed = [k \in Tokens |-> << >>]

NextSameCart ==
    \/ \E t \in Tasks : Return(t)
    \/ Quiet /\ \E t \in Tasks, u \in Users :
          Free(t) /\ cart_checkout_start(t, u, TaskToken(t))
    \/ Quiet /\ \E t \in Tasks : Acquire(t)
    \/ Quiet /\ \E t \in Tasks : cart_checkout_critical(t)

SpecSameCart == InitSameCart /\ [][NextSameCart]_vars

\* Checkouts of filled carts, as in SpecSameCart, with reset_all among them:
\* a checkout that waits across a reset keeps its cart and finds no product.
NextLines ==
    \/ \E t \in Tasks : Return(t)
    \/ Quiet /\ \E t \in Tasks, u \in Users :
          Free(t) /\ cart_checkout_start(t, u, TaskToken(t))
    \/ Quiet /\ \E t \in Tasks : Acquire(t)
    \/ Quiet /\ \E t \in Tasks : cart_checkout_critical(t)
    \/ Quiet /\ resets < MaxResets /\ reset_all

SpecLines == InitSameCart /\ [][NextLines]_vars

\* Top-ups of every kind of amount next to buys of the same users, in the
\* stocked shop of InitFair.
NextTopup ==
    \/ \E t \in Tasks : Return(t)
    \/ Quiet /\ \E t \in Tasks, u \in Users, a \in {0, 1} :
          /\ Free(t)
          /\ a > 0 => MayTopup(u, a, MaxBalance + 1)
          /\ wallet_topup_start(t, u, a)
    \/ Quiet /\ \E t \in Tasks : wallet_topup_critical(t)
    \/ Quiet /\ \E t \in Tasks, u \in Users, p \in Pids, q \in {1} :
          /\ Free(t)
          /\ BuyWaits(p, q, Token(u)) => MayPurchase
          /\ buy_start(t, u, p, q, Token(u))
    \/ Quiet /\ \E t \in Tasks : buy_critical(t)
    \/ Quiet /\ \E t \in Tasks : Acquire(t)

SpecTopup == InitFair /\ [][NextTopup]_vars

\* =================================================================== claims
RECURSIVE SeqSum(_)
SeqSum(s) == IF s = << >> THEN 0 ELSE Head(s) + SeqSum(Tail(s))

\* The quantity of product pid in one order, in all the orders.
OrderQty(o, pid) ==
    SeqSum([i \in 1..Len(o.items) |->
               IF o.items[i].product_id = pid THEN o.items[i].quantity ELSE 0])
Sold(pid) == SeqSum([i \in 1..Len(ORDERS) |-> OrderQty(ORDERS[i], pid)])

\* The response task t holds for a request of operation op.
Responded(t, op) == pc[t] = "done" /\ req[t].op = op
\* The step in which task t gets its response for a request of operation op.
Responds(t, op) == pc[t] # "done" /\ pc'[t] = "done" /\ req'[t].op = op

\* C1 - no oversell: the quantities of a product over all the placed orders
\* never add up to more than the quantity it was registered with, and the
\* product's quantity is never negative.
C1_NoOversell ==
    \A pid \in DOMAIN PRODUCTS :
        /\ Sold(pid) <= registered[pid]
        /\ PRODUCTS[pid].quantity >= 0

\* A buy of a product whose whole stock is sold was refused with 409.
C1_Witness ==
    \E t \in Tasks :
        /\ Responded(t, "buy") /\ res[t].code = 409
        /\ registered[req[t].pid] > 0
        /\ Sold(req[t].pid) = registered[req[t].pid]

\* C2 - no negative balance: no wallet balance is ever below zero.
C2_NoNegativeBalance == \A u \in Users : WALLETS[u] >= 0

\* A buy of a user who has spent all that was paid in was refused with 402.
C2_Witness ==
    \E t \in Tasks :
        /\ Responded(t, "buy") /\ res[t].code = 402
        /\ topped[req[t].user] > 0
        /\ WALLETS[req[t].user] = 0

\* C3 - idempotent replay, one request at a time: an idempotency entry, once
\* made, never changes; a buy that returns an order returns the entry of its
\* token; a buy whose token has an entry returns that entry and changes no
\* product, wallet, cart, order or idempotency entry.
C3_IdempotentReplay ==
    [][/\ \A k \in Tokens :
             IDEMPOTENCY[k] # NoOrder => IDEMPOTENCY'[k] = IDEMPOTENCY[k]
       /\ \A t \in Tasks :
             Responds(t, "buy") /\ res'[t].code = 200
                 => res'[t].order = IDEMPOTENCY'[req'[t].key]
       /\ \A t \in Tasks :
             Responds(t, "buy") /\ IDEMPOTENCY[req'[t].key] # NoOrder
                 => /\ res'[t].code = 200
                    /\ res'[t].order = IDEMPOTENCY[req'[t].key]
                    /\ UNCHANGED store]_vars

\* A buy was repeated with its token and its arguments after a later order
\* had been made, and got its first order again.
C3_Witness ==
    \E t \in Tasks :
        /\ Responded(t, "buy") /\ res[t].code = 200
        /\ res[t].order.id < Len(ORDERS)
        /\ res[t].order = ORDERS[res[t].order.id]
        /\ res[t].order.user_email = req[t].user
        /\ res[t].order.items[1].product_id = req[t].pid
        /\ res[t].order.items[1].quantity = req[t].qty

\* C4 - retransmission safety: a request retried under its idempotency token,
\* also while the first call is still waiting for its locks, is committed at
\* most once: no two orders committed under one token are orders of the same
\* user for the same items.
SameRequest(a, b) == a.user_email = b.user_email /\ a.items = b.items
C4_RetryCommittedOnce ==
    \A k \in Tokens : \A i, j \in 1..Len(committed[k]) :
        i < j => ~SameRequest(ORDERS[committed[k][i]], ORDERS[committed[k][j]])

\* C5 - checkout atomicity: a checkout that fails changes no product
\* quantity, no wallet, no order, no idempotency entry and no cart.
C5_CheckoutAtomic ==
    [][\A t \in Tasks :
          Responds(t, "checkout") /\ res'[t].code # 200 => UNCHANGED store]_vars

\* A checkout of a two-line cart failed on its second line, the first line
\* being in stock.
C5_Witness ==
    \E t \in Tasks :
        /\ Responded(t, "checkout") /\ res[t].code = 409
        /\ LET c == CARTS[req[t].user]
           IN  /\ Len(c) = 2
               /\ res[t].pid = c[2].pid
               /\ PRODUCTS[c[1].pid].quantity >= c[1].qty

\* C6 - a buy that fails (absent token, quantity not positive, unknown
\* product, insufficient stock, insufficient funds) changes no product, no
\* wallet, no cart, no order and no idempotency entry.
C6_FailedBuyChangesNothing ==
    [][\A t \in Tasks :
          Responds(t, "buy") /\ res'[t].code # 200 => UNCHANGED store]_vars

\* A buy of a product in stock was refused for insufficient funds, after its
\* locks were taken.
C6_Witness ==
    \E t \in Tasks :
        /\ Responded(t, "buy") /\ res[t].code = 402
        /\ req[t].pid \in DOMAIN PRODUCTS
        /\ PRODUCTS[req[t].pid].quantity >= req[t].qty
        /\ WALLETS[req[t].user] < PRODUCTS[req[t].pid].price_cents * req[t].qty

\* C7 - deadlock freedom: there is no set of requests in flight each of which
\* waits for a lock that another of the set holds.
Holds(t)    == {locks[t][i] : i \in 1..nacq[t]}
WaitsFor(t) == locks[t][nacq[t] + 1]
Blocked(t, D) ==
    pc[t] = "acquire" /\ \E x \in D \ {t} : WaitsFor(t) \in Holds(x)
C7_NoDeadlock ==
    \A D \in SUBSET Tasks : D # {} => \E t \in D : ~Blocked(t, D)

\* A checkout that holds the lock of one product and waits for the lock of the
\* next, which a second request holds (two-product checkouts in opposite cart
\* orders, or a checkout and a buy).
C7_Witness ==
    \E t \in Tasks, x \in Tasks :
        /\ t # x
        /\ Blocked(t, {t, x})
        /\ req[t].op = "checkout" /\ Holds(t) # {}
        /\ pc[x] = "acquire"

\* C8 - last-item race: two funded users each buy quantity 1 of a product of
\* quantity 1; when both are answered exactly one has succeeded, the other was
\* refused with insufficient_stock and has paid nothing, and the quantity is 0.
AllAnswered == \A t \in Tasks : pc[t] = "done"
Funded(u)  == topped[u] >= PRODUCTS[1].price_cents
C8_LastItemRace ==
    (AllAnswered /\ \A u \in Users : Funded(u)) =>
        /\ \E w \in Users :
              /\ res[w].code = 200
              /\ WALLETS[w] = topped[w] - PRODUCTS[1].price_cents
              /\ \A l \in Users \ {w} :
                    /\ res[l].code = 409 /\ res[l].detail = "insufficient_stock"
                    /\ WALLETS[l] = topped[l]
        /\ PRODUCTS[1].quantity = 0
        /\ Len(ORDERS) = 1

\* Both funded, both answered, and the second user got the item.
C8_Witness ==
    /\ AllAnswered /\ \A u \in Users : Funded(u)
    /\ res[2].code = 200 /\ res[1].code = 409

\* C9 - last-item race with an unfunded buyer: user 1 can pay, user 2 cannot;
\* when both are answered user 1 has succeeded and user 2 was refused, with
\* insufficient_stock or insufficient_funds, and the quantity is 0.
C9_LastItemRaceUnfunded ==
    (AllAnswered /\ Funded(1) /\ ~Funded(2)) =>
        /\ res[1].code = 200
        /\ WALLETS[1] = topped[1] - PRODUCTS[1].price_cents
        /\ \/ res[2].code = 409 /\ res[2].detail = "insufficient_stock"
           \/ res[2].code = 402 /\ res[2].detail = "insufficient_funds"
        /\ WALLETS[2] = topped[2]
        /\ PRODUCTS[1].quantity = 0
        /\ Len(ORDERS) = 1

\* User 2 has no balance at all and was refused for insufficient funds.
C9_Witness ==
    /\ AllAnswered /\ Funded(1) /\ topped[2] = 0
    /\ res[1].code = 200 /\ res[2].code = 402

\* C10 - effect of a successful buy of n units of product p by user u: the
\* quantity of p goes down by n, the balance of u by price * n, one order is
\* appended, of u, with the single line (p, n, price * n) and that total, and
\* it is the order returned; no other product, wallet or cart changes.
C10_BuyEffect ==
    [][\A t \in Tasks :
          (pc[t] = "acquire" /\ Responds(t, "buy") /\ res'[t].code = 200) =>
              LET u == req[t].user
                  p == req[t].pid
                  n == req[t].qty
                  total == PRODUCTS[p].price_cents * n
                  o == ORDERS'[Len(ORDERS')]
              IN  /\ PRODUCTS' = [PRODUCTS EXCEPT ![p].quantity = @ - n]
                  /\ WALLETS' = [WALLETS EXCEPT ![u] = @ - total]
                  /\ CARTS' = CARTS
                  /\ ORDERS' = Append(ORDERS, o)
                  /\ o.user_email = u /\ o.status = "placed"
                  /\ o.total_cents = total
                  /\ Len(o.items) = 1
                  /\ o.items[1].product_id = p
                  /\ o.items[1].quantity = n
                  /\ o.items[1].line_total_cents = total
                  /\ res'[t].order = o]_vars

\* A buy of two units was committed while a second product was registered and
\* the other user had a balance.
C10_Witness ==
    \E t \in Tasks :
        /\ Responded(t, "buy") /\ res[t].code = 200
        /\ req[t].qty = 2
        /\ req[t].pid \in DOMAIN PRODUCTS
        /\ res[t].order.id = Len(ORDERS)
        /\ res[t].order.user_email = req[t].user
        /\ res[t].order.items[1].product_id = req[t].pid
        /\ res[t].order.total_cents = 2 * PRODUCTS[req[t].pid].price_cents
        /\ PRODUCTS[req[t].pid].quantity = registered[req[t].pid] - 2
        /\ Len(PRODUCTS) = 2
        /\ \E u \in Users \ {req[t].user} : WALLETS[u] > 0

\* C11 - a successful buy returns a result whose status is "order placed".
C11_StatusOrderPlaced ==
    \A t \in Tasks :
        Responded(t, "buy") /\ res[t].code = 200 => res[t].order.status = "order placed"

\* C12 - error kinds of buy, in order: once the locks are held, a quantity
\* above the stock is answered 409 insufficient_stock, also when the balance
\* is short as well; enough stock with a balance below price * quantity is
\* answered 402 insufficient_funds; otherwise the buy succeeds.
C12_BuyErrorOrder ==
    [][\A t \in Tasks :
          (pc[t] = "acquire" /\ Responds(t, "buy")) =>
              LET prod    == PRODUCTS[req[t].pid]
                  balance == WALLETS[req[t].user]
                  n       == req[t].qty
              IN  IF prod.quantity < n
                  THEN res'[t].code = 409 /\ res'[t].detail = "insufficient_stock"
                  ELSE IF balance < prod.price_cents * n
                  THEN res'[t].code = 402 /\ res'[t].detail = "insufficient_funds"
                  ELSE res'[t].code = 200]_vars

\* A buy short of both stock and funds was answered 409.
C12_Witness ==
    \E t \in Tasks :
        /\ Responded(t, "buy") /\ res[t].code = 409
        /\ PRODUCTS[req[t].pid].quantity < req[t].qty
        /\ WALLETS[req[t].user] < PRODUCTS[req[t].pid].price_cents * req[t].qty

\* C13 - a buy or checkout without a token (header absent or empty) is
\* answered 400 "Idempotency-Key header required" at once: it requests no
\* lock, no lock changes hands, no store changes, and no token is made up
\* for the request.
Starts(t, ops) == pc[t] = "idle" /\ pc'[t] # "idle" /\ req'[t].op \in ops
C13_MissingToken ==
    [][\A t \in Tasks :
          (Starts(t, {"buy", "checkout"}) /\ req'[t].key = "") =>
              /\ pc'[t] = "done"
              /\ res'[t].code = 400
              /\ res'[t].detail = "Idempotency-Key header required"
              /\ locks'[t] = << >>
              /\ UNCHANGED <<store, locked>>]_vars

\* A checkout of a non-empty cart was refused for the missing token.
C13_Witness ==
    \E t \in Tasks :
        /\ Responded(t, "checkout") /\ req[t].key = "" /\ res[t].code = 400
        /\ CARTS[req[t].user] # << >>

\* C14 - cache hit: a buy or checkout whose token has an idempotency entry is
\* answered at once with that entry, whatever its other arguments and
\* whichever operation wrote the entry; it requests no lock and changes no
\* product, wallet, cart, order or idempotency entry.
C14_CacheHit ==
    [][\A t \in Tasks :
          (Starts(t, {"buy", "checkout"}) /\ IDEMPOTENCY[req'[t].key] # NoOrder) =>
              /\ pc'[t] = "done"
              /\ res'[t] = Ok(IDEMPOTENCY[req'[t].key])
              /\ locks'[t] = << >>
              /\ UNCHANGED <<store, locked>>]_vars

\* A buy of quantity 0 got the order another user had made under the token.
C14_Witness ==
    \E t \in Tasks :
        /\ Responded(t, "buy") /\ res[t].code = 200
        /\ req[t].qty = 0
        /\ res[t].order = IDEMPOTENCY[req[t].key]
        /\ res[t].order.user_email # req[t].user

\* C15 - lock registry uniqueness: the registry gives the same lock object
\* for a key on every call, so the locks that two requests use for one key
\* are one object.
C15_OneLockPerKey ==
    \A t \in Tasks, x \in Tasks :
        \A i \in 1..Len(locks[t]), j \in 1..Len(locks[x]) :
            KeyOf(locks[t][i]) = KeyOf(locks[x][j]) => locks[t][i] = locks[x][j]

\* C16 - no leaked locks: the locked locks are exactly the ones that requests
\* in flight have acquired and not yet released; a request that has finished,
\* with an order or with an error raised under the locks, holds none, and with
\* no request in flight every lock is free.
C16_NoLeakedLocks ==
    /\ locked = UNION {Holds(t) : t \in Tasks}
    /\ \A t \in Tasks : pc[t] # "acquire" => Holds(t) = {} /\ locks[t] = << >>
    /\ (\A t \in Tasks : pc[t] # "acquire") => locked = {}

\* A checkout has been refused under its locks (no stock or no funds), no
\* request is in flight and no lock is locked.
C16_Witness ==
    \E t \in Tasks :
        /\ Responded(t, "checkout") /\ res[t].code \in {402, 409}
        /\ \A x \in Tasks : pc[x] # "acquire"
        /\ locked = {}

\* The keys of the locks of task t, in the order it acquires them.
Keys(t) == [i \in 1..Len(locks[t]) |-> KeyOf(locks[t][i])]
Ascending(ks) == \A i \in 1..Len(ks), j \in 1..Len(ks) : i < j => KeyLess(ks[i], ks[j])
\* The resources of request rq: its product(s) and the wallet of its user.
KeySet(rq) ==
    {WalletKey(rq.user)} \cup
        (IF rq.op = "buy" THEN {ProductKey(rq.pid)}
         ELSE {ProductKey(p) : p \in CartPids(CARTS[rq.user])})

\* C17 - canonical lock order: a buy or checkout that acquires locks has the
\* keys of all its resources (products and wallet together) in one list in
\* strictly ascending order, hence without a duplicate; the locks it holds
\* are a prefix of that list, the lock it requests next has a key greater than
\* every key it holds, and each acquisition takes exactly the next lock of
\* the list.
C17_CanonicalLockOrder ==
    [][\A t \in Tasks :
          (pc'[t] = "acquire" /\ req'[t].op \in {"buy", "checkout"}) =>
              /\ Ascending(Keys(t)')
              /\ nacq'[t] < Len(locks'[t])
              /\ Holds(t)' \subseteq locked'
              /\ \A l \in Holds(t)' : KeyLess(KeyOf(l), KeyOf(WaitsFor(t)'))
              /\ pc[t] = "idle" =>
                    /\ {Keys(t)'[i] : i \in 1..Len(locks'[t])} = KeySet(req'[t])
                    /\ nacq'[t] = 0
              /\ pc[t] = "acquire" =>
                    /\ locks'[t] = locks[t]
                    /\ \/ nacq'[t] = nacq[t]
                       \/ /\ nacq'[t] = nacq[t] + 1
                          /\ locked' = locked \cup {WaitsFor(t)}
                          /\ WaitsFor(t) \notin locked]_vars

\* A checkout of a cart filled in descending order of product id holds the
\* locks of its two products, the lower id first, and waits for the wallet.
C17_Witness ==
    \E t \in Tasks :
        /\ pc[t] = "acquire" /\ req[t].op = "checkout" /\ nacq[t] = 2
        /\ Len(CARTS[req[t].user]) = 2
        /\ CARTS[req[t].user][1].pid > CARTS[req[t].user][2].pid
        /\ Keys(t) = <<ProductKey(1), ProductKey(2), WalletKey(req[t].user)>>

\* The lock objects of task t: the ones it holds inside its try block.
LockSet(t) == {locks[t][i] : i \in 1..Len(locks[t])}

\* C18 - mutation only under lock: a request that changes the quantity of a
\* product or the balance of a wallet holds the lock of that product or wallet
\* while it does so; for a checkout this includes the lines that cart_add put
\* in the cart while the checkout was waiting for its locks.
C18_MutationUnderLock ==
    [][\A t \in Tasks :
          (pc[t] = "acquire" /\ pc'[t] = "done") =>
              /\ \A p \in DOMAIN PRODUCTS :
                    PRODUCTS'[p].quantity # PRODUCTS[p].quantity =>
                        get_lock(ProductKey(p)) \in LockSet(t)
              /\ \A u \in Users :
                    WALLETS'[u] # WALLETS[u] =>
                        get_lock(WalletKey(u)) \in LockSet(t)]_vars

\* C19 - mutual exclusion: no lock is held by two requests at once, and a
\* request whose next lock is held stays where it is, with the locks it has,
\* until that lock is released.
C19_MutualExclusion ==
    [][/\ \A t \in Tasks, x \in Tasks :
             t # x => {KeyOf(l) : l \in Holds(t)'} \cap {KeyOf(l) : l \in Holds(x)'} = {}
       /\ \A t \in Tasks :
             (pc[t] = "acquire" /\ WaitsFor(t) \in locked) =>
                 /\ pc'[t] = "acquire"
                 /\ nacq'[t] = nacq[t]
                 /\ locks'[t] = locks[t]]_vars

\* A buy holds the lock of its product while a second buy of the same product
\* waits for it.
C19_Witness ==
    \E t \in Tasks, x \in Tasks :
        /\ t # x
        /\ pc[t] = "acquire" /\ req[t].op = "buy"
        /\ pc[x] = "acquire" /\ req[x].op = "buy"
        /\ WaitsFor(t) \in Holds(x)
        /\ KeyOf(WaitsFor(t)) = ProductKey(req[t].pid)

\* C20 - completion: under fair scheduling every request that has started to
\* acquire its locks gets all of them, finishes with an order or an error and
\* has released every lock by then; none waits for ever.
C20_Completion ==
    \A t \in Tasks :
        (pc[t] = "acquire") ~> (pc[t] = "done" /\ locks[t] = << >> /\ res[t] # NoRes)

\* Two checkouts of carts that hold the same two products in opposite orders:
\* one holds the lock of the first product and the other waits for it.
C20_Witness ==
    \E t \in Tasks, x \in Tasks :
        /\ t # x
        /\ req[t].op = "checkout" /\ req[x].op = "checkout"
        /\ Blocked(t, {t, x})
        /\ Len(CARTS[req[t].user]) = 2 /\ Len(CARTS[req[x].user]) = 2
        /\ CARTS[req[t].user][1].pid # CARTS[req[x].user][1].pid

\* An order as the commit blocks build it (lines 236-241, 252-258, 307-319),
\* against the products it was made from.
OrderOk(o, products) ==
    /\ o.status = "placed"
    /\ o.total_cents = SeqSum([i \in 1..Len(o.items) |-> o.items[i].line_total_cents])
    /\ \A i \in 1..Len(o.items) :
          /\ o.items[i].product_id \in DOMAIN products
          /\ o.items[i].line_total_cents =
                 products[o.items[i].product_id].price_cents * o.items[i].quantity

\* C21 - order invariants: every stored order has status "placed", a total
\* that is the sum of its line totals and line totals that are price times
\* quantity; an order, once stored, stays as it is and where it is as long as
\* there is no reset.
C21_OrderInvariants ==
    [][/\ \A i \in 1..Len(ORDERS') : OrderOk(ORDERS'[i], PRODUCTS')
       /\ resets' = resets =>
             /\ Len(ORDERS') >= Len(ORDERS)
             /\ \A i \in 1..Len(ORDERS) : ORDERS'[i] = ORDERS[i]]_vars

\* Two orders are stored, the first from a checkout of a two-line cart, the
\* second for another user.
C21_Witness ==
    /\ Len(ORDERS) = 2
    /\ Len(ORDERS[1].items) = 2
    /\ ORDERS[2].user_email # ORDERS[1].user_email

\* The step in which task t commits a checkout.
Commits(t, op) ==
    pc[t] = "acquire" /\ Responds(t, op) /\ res'[t].code = 200

\* C22 - effect of a successful checkout: every product of the user's cart
\* goes down by its cart quantity and no other product changes, the user's
\* wallet goes down by the sum of the line totals, one order is added with
\* one line per cart entry, the user's cart is empty afterwards and no other
\* user's wallet or cart changes.
C22_CheckoutEffect ==
    [][\A t \in Tasks :
          Commits(t, "checkout") =>
              LET user == req[t].user
                  c    == CARTS[user]
                  o    == ORDERS'[Len(ORDERS')]
              IN  /\ \A p \in DOMAIN PRODUCTS :
                        PRODUCTS'[p].quantity = PRODUCTS[p].quantity -
                            (IF p \in CartPids(c) THEN CartQty(c, p) ELSE 0)
                  /\ WALLETS'[user] = WALLETS[user] -
                        SeqSum([i \in 1..Len(c) |->
                                   PRODUCTS[c[i].pid].price_cents * c[i].qty])
                  /\ ORDERS' = Append(ORDERS, o)
                  /\ o.user_email = user
                  /\ Len(o.items) = Len(c)
                  /\ \A i \in 1..Len(c) :
                        /\ o.items[i].product_id = c[i].pid
                        /\ o.items[i].quantity = c[i].qty
                  /\ res'[t].order = o
                  /\ CARTS'[user] = << >>
                  /\ \A u \in Users \ {user} :
                        WALLETS'[u] = WALLETS[u] /\ CARTS'[u] = CARTS[u]]_vars

\* The orders of user u.
OrdersOf(u) == {i \in 1..Len(ORDERS) : ORDERS[i].user_email = u}

\* C26 - a cart is purchased at most once: with no cart_add in between,
\* concurrent checkouts of one user under different tokens make at most one
\* order.
C26_CartPurchasedOnce ==
    \A u \in Users : Cardinality(OrdersOf(u)) <= 1

\* C23 - idempotency entries are first-writer-wins: a token that has an entry
\* in the cache keeps that entry; no buy or checkout with the token, later or
\* concurrent, puts another result in its place.
C23_FirstWriterWins ==
    [][\A k \in Tokens :
          (IDEMPOTENCY[k] # NoOrder /\ resets' = resets) =>
              IDEMPOTENCY'[k] = IDEMPOTENCY[k]]_vars

\* C24 - cart invariant: every entry of every cart has a quantity above zero.
C24_CartQuantitiesPositive ==
    \A u \in Users : \A i \in 1..Len(CARTS[u]) : CARTS[u][i].qty > 0

\* A user who has checked out before has a cart again, with one unit of the
\* second product and MaxQty units of the first.
C24_Witness ==
    \E u \in Users :
        /\ OrdersOf(u) # {}
        /\ CARTS[u] = <<[pid |-> 2, qty |-> 1], [pid |-> 1, qty |-> MaxQty]>>

C27_CachedAfterRelease ==
    [][\A t \in Tasks :
          (Commits(t, "buy") \/ Commits(t, "checkout")) =>
              /\ HeldAtCacheWrite(t) = {}
              /\ IDEMPOTENCY'[req[t].key] = res'[t].order]_vars

\* Task t is refused at once with the given code and detail: no lock is asked
\* for and nothing changes.
Refused(t, code, detail) ==
    /\ pc'[t] = "done"
    /\ res'[t].code = code /\ res'[t].detail = detail
    /\ locks'[t] = << >>
    /\ UNCHANGED <<store, locked>>

\* C28 - pre-lock rejections: with a fresh token, a buy of a quantity <= 0 is
\* refused as invalid (whether or not the product exists), a buy of an unknown
\* product as not found and a checkout of an empty cart as cart empty, each
\* without a lock and without a change.
C28_PreLockRejections ==
    [][\A t \in Tasks :
          (Starts(t, {"buy", "checkout"}) /\ req'[t].key # ""
              /\ IDEMPOTENCY[req'[t].key] = NoOrder) =>
              /\ (req'[t].op = "buy" /\ req'[t].qty <= 0) =>
                    Refused(t, 400, "quantity must be > 0")
              /\ (req'[t].op = "buy" /\ req'[t].qty > 0
                      /\ req'[t].pid \notin DOMAIN PRODUCTS) =>
                    Refused(t, 404, "product not found")
              /\ (req'[t].op = "checkout" /\ CARTS[req'[t].user] = << >>) =>
                    Refused(t, 400, "cart empty")]_vars

\* A buy of quantity 0 of a product that does not exist, under a fresh token,
\* has been refused for its quantity.
C28_Witness ==
    \E t \in Tasks :
        /\ Responded(t, "buy") /\ res[t].code = 400
        /\ res[t].detail = "quantity must be > 0"
        /\ req[t].qty <= 0 /\ req[t].pid \notin DOMAIN PRODUCTS
        /\ req[t].key # "" /\ IDEMPOTENCY[req[t].key] = NoOrder

\* The lines of cart c that the stock of the moment does not cover.
ShortLines(c) ==
    {i \in 1..Len(c) : c[i].pid \in DOMAIN PRODUCTS
                        /\ PRODUCTS[c[i].pid].quantity < c[i].qty}

\* C29 - stock is validated under the locks: the answer of a buy, and of a
\* checkout for each of its lines, follows the quantity the product has when
\* the request has got all its locks, whatever it was when the request began
\* to wait: short stock then is refused with 409, and an order is made only
\* from stock that is there then.
C29_StockCheckedUnderLocks ==
    [][\A t \in Tasks :
          (pc[t] = "acquire" /\ pc'[t] = "done") =>
              /\ req[t].op = "buy" =>
                    (res'[t].code = 409 <=> PRODUCTS[req[t].pid].quantity < req[t].qty)
              /\ req[t].op = "checkout" =>
                    /\ res'[t].code = 409 =>
                          \E i \in ShortLines(CartRef(t)) : CartRef(t)[i].pid = res'[t].pid
                    /\ res'[t].code \in {200, 402} => ShortLines(CartRef(t)) = {}
                    /\ ShortLines(CartRef(t)) # {} => res'[t].code \in {400, 404, 409}]_vars

\* A checkout has been refused with 409 for a product that was registered
\* with stock and is sold out by now.
C29_Witness ==
    \E t \in Tasks :
        /\ Responded(t, "checkout") /\ res[t].code = 409
        /\ res[t].pid \in DOMAIN PRODUCTS
        /\ registered[res[t].pid] > 0
        /\ Sold(res[t].pid) = registered[res[t].pid]

\* The keys of the resources the request of task t touches: the wallet of its
\* user and, for a buy, its product, for a checkout, the products of its cart.
ReqKeys(t) ==
    {WalletKey(req[t].user)} \cup
        (CASE req[t].op = "buy" -> {ProductKey(req[t].pid)}
           [] req[t].op = "checkout" -> {ProductKey(p) : p \in CartPids(CartRef(t))}
           [] OTHER -> {})

MissingLines(c) == {i \in 1..Len(c) : c[i].pid \notin DOMAIN PRODUCTS}
Least(S) == CHOOSE i \in S : \A j \in S : i <= j

\* C31 - a checkout that fails on a line names the product: a refusal for
\* stock is 409 insufficient_stock with the product of the first line, in the
\* order of the cart, that the stock does not cover; a refusal for a missing
\* product is 404 product_not_found with the id of that product.
C31_FailingLineNamed ==
    [][\A t \in Tasks :
          (pc[t] = "acquire" /\ Responds(t, "checkout")) =>
              LET c == CartRef(t)
              IN  /\ res'[t].code = 409 =>
                        /\ ShortLines(c) # {}
                        /\ res'[t].pid = c[Least(ShortLines(c))].pid
                        /\ res'[t].detail = "insufficient_stock"
                  /\ res'[t].code = 404 =>
                        /\ MissingLines(c) # {}
                        /\ res'[t].pid = c[Least(MissingLines(c))].pid
                        /\ res'[t].detail = "product_not_found"
                  /\ (ShortLines(c) # {} /\ MissingLines(c) = {}) => res'[t].code = 409
                  /\ (MissingLines(c) # {} /\ ShortLines(c) = {}) => res'[t].code = 404]_vars

\* A checkout of the cart (p2, p1) has been refused for p2 while neither
\* product is in stock: the line named is the first of the cart, not the one
\* with the least key.
C31_Witness ==
    \E t \in Tasks :
        /\ Responded(t, "checkout") /\ res[t].code = 409 /\ res[t].pid = 2
        /\ resets = 0
        /\ PRODUCTS[1].quantity = 0 /\ PRODUCTS[2].quantity = 0

\* C32 - product immutability: as long as there is no reset, a registered
\* product stays registered with its id, name, price and category; its
\* quantity changes only in the commit of a buy or a checkout, and only
\* downwards.
C32_ProductImmutable ==
    [][resets' = resets =>
          \A p \in DOMAIN PRODUCTS :
              /\ p \in DOMAIN PRODUCTS'
              /\ PRODUCTS'[p].id = PRODUCTS[p].id
              /\ PRODUCTS'[p].name = PRODUCTS[p].name
              /\ PRODUCTS'[p].price_cents = PRODUCTS[p].price_cents
              /\ PRODUCTS'[p].category = PRODUCTS[p].category
              /\ PRODUCTS'[p].quantity <= PRODUCTS[p].quantity
              /\ PRODUCTS'[p].quantity # PRODUCTS[p].quantity =>
                    \E t \in Tasks : Commits(t, "buy") \/ Commits(t, "checkout")]_vars

\* Two orders have been made and a product registered with MaxStock units at
\* price MaxPrice is down to its last unit.
C32_Witness ==
    \E p \in DOMAIN PRODUCTS :
        /\ Len(ORDERS) = 2
        /\ registered[p] = MaxStock /\ PRODUCTS[p].price_cents = MaxPrice
        /\ PRODUCTS[p].quantity = MaxStock - 1

\* The quantities a cart_remove request may carry.
RemoveQtys == {None} \cup 0..(MaxQty + 1)

C34_TopupWallet ==
    [][\A t \in Tasks :
          /\ (Starts(t, {"topup"}) /\ req'[t].qty <= 0) =>
                Refused(t, 400, "Amount must be positive")
          /\ (Starts(t, {"topup"}) /\ req'[t].qty > 0) =>
                /\ pc'[t] = "acquire"
                /\ locks'[t] = <<get_lock(WalletKey(req'[t].user))>>
                /\ UNCHANGED <<store, locked>>
          /\ (pc[t] = "acquire" /\ Responds(t, "topup")) =>
                /\ WALLETS'[req[t].user] = WALLETS[req[t].user] + req[t].qty
                /\ \A u \in Users \ {req[t].user} : WALLETS'[u] = WALLETS[u]
                /\ UNCHANGED <<PRODUCTS, CARTS, ORDERS, IDEMPOTENCY>>
                /\ res'[t].code = 200
                /\ res'[t].balance = WALLETS'[req[t].user]
                /\ locked' = locked
                /\ get_lock(WalletKey(req[t].user)) \notin locked']_vars

\* A top-up of a wallet that held money already has been answered with the
\* sum, while a buy of the other user is in flight.
C34_Witness ==
    \E t \in Tasks, x \in Tasks :
        /\ Responded(t, "topup") /\ res[t].code = 200
        /\ res[t].balance > req[t].qty
        /\ WALLETS[req[t].user] = res[t].balance
        /\ pc[x] = "acquire" /\ req[x].op = "buy" /\ req[x].user # req[t].user

\* What the orders stored for user u add up to.
Spent(u) ==
    SeqSum([i \in 1..Len(ORDERS) |->
               IF ORDERS[i].user_email = u THEN ORDERS[i].total_cents ELSE 0])

\* C35 - money conservation: the balance of every user is what the user's
\* successful top-ups add up to, less the totals of the orders stored for the
\* user, under every interleaving of top-ups, buys and checkouts.
C35_MoneyConserved ==
    \A u \in Users : WALLETS[u] = topped[u] - Spent(u)

\* A user has paid in more than once, has bought and has money left.
C35_Witness ==
    \E u \in Users :
        /\ topped[u] = MaxBalance + 1
        /\ Spent(u) > 0
        /\ WALLETS[u] > 0
        /\ \E t \in Tasks : pc[t] = "acquire" /\ req[t].user = u

\* C36 - stock conservation: for every product, the quantity it was
\* registered with is the quantity it has now plus the quantities of its
\* lines in the stored orders.
C36_StockConserved ==
    \A p \in DOMAIN PRODUCTS :
        registered[p] = PRODUCTS[p].quantity + Sold(p)

\* One checkout of a two-line cart has emptied the shop.
C36_Witness ==
    /\ Len(ORDERS) = 1 /\ Len(ORDERS[1].items) = 2
    /\ \A p \in DOMAIN PRODUCTS : PRODUCTS[p].quantity = 0 /\ registered[p] > 0

C38_CacheMatchesOrders ==
    /\ \A k \in Tokens :
          IDEMPOTENCY[k] # NoOrder =>
              /\ committed[k] # << >>
              /\ \E i \in 1..Len(ORDERS) : ORDERS[i] = IDEMPOTENCY[k]
    /\ \A i \in 1..Len(ORDERS) :
          Cardinality({k \in Tokens : IDEMPOTENCY[k] = ORDERS[i]}) = 1

\* ------------------------------------------------------------ view_cart
\* lines 154-167.  The handler has no await and writes nothing: its response
\* is a function of the state.  A line is marked available where the code
\* gives the product, and not available where it finds none (lines 160-163).
view_cart(user) ==
    LET c == CARTS[user]                   \* CARTS.get(user, {})
        item(i) ==
            IF c[i].pid \in DOMAIN PRODUCTS
            THEN [product_id |-> c[i].pid, available |-> TRUE,
                  quantity |-> c[i].qty,
                  line_total_cents |-> PRODUCTS[c[i].pid].price_cents * c[i].qty]
            ELSE [product_id |-> c[i].pid, available |-> FALSE,
                  quantity |-> c[i].qty, line_total_cents |-> 0]
        items == [i \in 1..Len(c) |-> item(i)]
    IN  [user_email |-> user, items |-> items,
         total_cents |-> SeqSum([i \in 1..Len(c) |-> items[i].line_total_cents])]

\* Every product id of a stored cart is the id of a registered product.
CartIntegrity == \A u \in Users : CartPids(CARTS[u]) \subseteq DOMAIN PRODUCTS
\* view_cart answers with a line whose product it did not find.
ViewCartMissing(u) ==
    \E i \in 1..Len(view_cart(u).items) : ~view_cart(u).items[i].available
\* A checkout was refused because a product of its cart was not found.
CheckoutMissing(t) == Responded(t, "checkout") /\ res[t].code = 404

\* C39 as stated - cart referential integrity: every product id in a stored
\* cart is the id of a registered product, so the missing-product branch of
\* checkout and of view_cart is never taken.
C39_MissingBranchUnreachable ==
    /\ CartIntegrity
    /\ \A u \in Users : ~ViewCartMissing(u)
    /\ \A t \in Tasks : ~CheckoutMissing(t)

\* C39 - cart referential integrity: every product id in a stored cart is
\* the id of a registered product and view_cart never takes its
\* missing-product branch; a checkout takes its missing-product branch only
\* when a reset has run since it asked for its locks, and it then changes
\* nothing.
C39_CartIntegrity ==
    /\ [](CartIntegrity /\ \A u \in Users : ~ViewCartMissing(u))
    /\ [][\A t \in Tasks :
             Responds(t, "checkout") /\ res'[t].code = 404 =>
                 /\ locks[t] # << >>
                 /\ \A i \in 1..Len(locks[t]) : locks[t][i][3] < resets
                 /\ UNCHANGED store]_vars

\* A checkout that waited across a reset was refused for a product of the
\* cart it had read, and no stored cart names a product.
C39_Witness ==
    \E t \in Tasks :
        /\ CheckoutMissing(t) /\ resets > 0
        /\ res[t].detail = "product_not_found"
        /\ PRODUCTS = << >>
        /\ \A u \in Users : CARTS[u] = << >>

\* Task t, a buy or a checkout, leaves its try block, with an order or with
\* an error.
LeavesTry(t) ==
    pc[t] = "acquire" /\ pc'[t] = "done" /\ req[t].op \in {"buy", "checkout"}

====
